---- MODULE Spec2Model ----
(***************************************************************************)
(* Model of scratch/powerline_loss_test.py: the power-line loss pipeline   *)
(* (scenario synthesis, simulator invocation, replicate-output location,   *)
(* loss aggregation).  The external simulator is an environment that       *)
(* writes an output tree and returns an exit status.                        *)
(***************************************************************************)
EXTENDS Integers, Sequences, FiniteSets, TLC

VARIABLES
    pc,             \* position in main / evaluate_losses
    run,            \* number of the current invocation of main
    nrows, ncols,   \* main's nrows, ncols
    nsims,          \* main's nsims
    template,       \* names of the files present in BASE_TOY_FOLDER
    generated,      \* GENERATED_DATA_FOLDER: file name -> run that wrote it (0: absent)
    values,         \* the value map (sequence of rows; <<>> before it is built)
    output_exists,  \* OUTPUT_FOLDER.exists()
    output,         \* files under OUTPUT_FOLDER/Grids: [folder, name, run]
    launches,       \* calls of subprocess.run made by this run
    exit_status,    \* <<returncode>> of this run's simulator invocation, <<>> before
    sim,            \* loop variable of evaluate_losses
    grid_file,      \* evaluate_losses' grid_file (NoFile before the first lookup)
    hit_count,      \* evaluate_losses' hit_count
    losses,         \* evaluate_losses' losses
    report,         \* <<summary>> once the summary is printed, <<>> before
    error,          \* the exception that ended the run, "none" otherwise
    processed,      \* replicate indices looked up in this run, in order
    disk            \* content of each replicate's grid file when it is fixed up front

vars == <<pc, run, nrows, ncols, nsims, template, generated, values, output_exists,
          output, launches, exit_status, sim, grid_file, hit_count, losses, report, error,
          processed, disk>>

---------------------------------------------------------------------------
\* Bounds of the model.
MaxRows == 2
MaxCols == 2
MaxSims == 2
MaxRuns == 2
MaxSimSeq == 1
MaxSeq == 10
ValRows == 6
ValCols == 9

\* Cell codes a burn-state grid may hold: 1 is "burned", the others are opaque.
Codes == {0, 1, 2}

\* Values a hand-made value map may hold.
MapValues == {1, 100}

---------------------------------------------------------------------------
\* Sequences helpers.
RECURSIVE SumSeq(_)
SumSeq(s) == IF s = <<>> THEN 0 ELSE s[1] + SumSeq(Tail(s))

RECURSIVE MaxSeqOf(_)
MaxSeqOf(s) ==
    IF Len(s) = 1 THEN s[1]
    ELSE LET m == MaxSeqOf(Tail(s)) IN IF s[1] >= m THEN s[1] ELSE m

Matrices(R, C, S) == [1..R -> [1..C -> S]]

---------------------------------------------------------------------------
\* File names, as sequences of character codes.
ForestGridPrefix == <<70, 111, 114, 101, 115, 116, 71, 114, 105, 100>>
CsvSuffix == <<46, 99, 115, 118>>
StatsName == <<83, 116, 97, 116, 115, 46, 99, 115, 118>>

RECURSIVE Digits(_)
Digits(k) == IF k < 10 THEN <<48 + k>> ELSE Digits(k \div 10) \o <<48 + (k % 10)>>

ForestGridName(k) == ForestGridPrefix \o Digits(k) \o CsvSuffix

\* str.__lt__: code-point lexicographic order, a proper prefix sorting first.
LexLess(a, b) ==
    \/ /\ Len(a) < Len(b)
       /\ \A i \in 1..Len(a) : a[i] = b[i]
    \/ \E i \in 1..Len(a) :
          /\ i <= Len(b)
          /\ a[i] < b[i]
          /\ \A j \in 1..(i - 1) : a[j] = b[j]

\* glob("ForestGrid*.csv")
GlobMatch(name) ==
    /\ Len(name) >= Len(ForestGridPrefix) + Len(CsvSuffix)
    /\ SubSeq(name, 1, Len(ForestGridPrefix)) = ForestGridPrefix
    /\ SubSeq(name, Len(name) - Len(CsvSuffix) + 1, Len(name)) = CsvSuffix

NoFile == [folder |-> 0, name |-> <<>>, run |-> 0]

get_last_forest_grid_for_sim(out, sim_index) ==
    LET forest_files == {f \in out : f.folder = sim_index /\ GlobMatch(f.name)}
    IN IF forest_files = {} THEN NoFile
       ELSE CHOOSE f \in forest_files :
                \A g \in forest_files : g = f \/ LexLess(g.name, f.name)

---------------------------------------------------------------------------
\* numpy.
\* Variant: the middle column taken as ncols // 2.
PowerlineColIndexNoOffset(nc) == nc \div 2

PowerlineColIndex(nc) == (nc \div 2) - 1

\* Position (1-based) of index i in an axis of length n; 0 when i is out of bounds.
AxisIndex(i, n) ==
    IF 0 <= i /\ i < n THEN i + 1
    ELSE IF -n <= i /\ i < 0 THEN n + i + 1
    ELSE 0

build_powerline_values(nr, nc) ==
    LET col == AxisIndex(PowerlineColIndex(nc), nc)
    IN [r \in 1..nr |-> [c \in 1..nc |-> IF c = col THEN 100 ELSE 1]]

\* np.loadtxt(file, delimiter=","): axes of length one are squeezed away.
loadtxt(g) ==
    [ndim |-> (IF Len(g) > 1 THEN 1 ELSE 0) + (IF Len(g[1]) > 1 THEN 1 ELSE 0),
     cells |-> g]

\* a[:, i] of a 2-D array given as its rows.
Column(rows, i) == [r \in 1..Len(rows) |-> rows[r][AxisIndex(i, Len(rows[1]))]]

\* Variant: one hit counted per burned cell (np.sum in place of np.any).
HitIncrementPerCell(burned_powerline) ==
    Cardinality({r \in 1..Len(burned_powerline) : burned_powerline[r]})

\* if np.any(burned_powerline): hit_count += 1
HitIncrement(burned_powerline) ==
    IF \E r \in 1..Len(burned_powerline) : burned_powerline[r] THEN 1 ELSE 0

\* Outcome of one pass of the loop body on the loaded array:
\* [ok, loss, hit]; ok is FALSE when numpy raises IndexError.
LoopBody(vals, final_grid) ==
    LET idx == PowerlineColIndex(Len(vals[1]))
        powerline_values == Column(vals, idx)
        bad == [ok |-> FALSE, loss |-> 0, hit |-> 0]
    IN IF final_grid.ndim < 2 THEN bad
       ELSE IF AxisIndex(idx, Len(final_grid.cells[1])) = 0 THEN bad
       ELSE LET grid_column == Column(final_grid.cells, idx)
                burned_powerline == [r \in 1..Len(grid_column) |-> grid_column[r] = 1]
            IN IF Len(burned_powerline) # Len(powerline_values) THEN bad
               ELSE [ok |-> TRUE,
                     loss |-> SumSeq([r \in 1..Len(powerline_values) |->
                                 IF burned_powerline[r] THEN powerline_values[r] ELSE 0]),
                     hit |-> HitIncrement(burned_powerline)]

---------------------------------------------------------------------------
\* The pipeline.
TemplateFiles == {"fbp_lookup_table.csv", "Weather.csv"}
ScenarioFiles == TemplateFiles \cup {"Forest.asc", "Data.csv", "values100x100.csv"}

Fail(exc) ==
    /\ pc' = "failed"
    /\ error' = exc

\* Variant: a template file that is not there is skipped.
copy_common_input_files_skip_missing ==
    /\ pc = "copy"
    /\ pc' = "forest"
    /\ generated' = [f \in ScenarioFiles |->
                        IF f \in template THEN run ELSE generated[f]]
    /\ UNCHANGED <<run, nrows, ncols, nsims, template, values, output_exists, output,
                   launches, exit_status, sim, grid_file, hit_count, losses, report,
                   error, processed, disk>>

\* shutil.copy2 of each template file in turn; the first missing one raises.
copy_common_input_files ==
    /\ pc = "copy"
    /\ IF "fbp_lookup_table.csv" \notin template
       THEN /\ Fail("FileNotFoundError")
            /\ UNCHANGED generated
       ELSE IF "Weather.csv" \notin template
       THEN /\ Fail("FileNotFoundError")
            /\ generated' = [generated EXCEPT !["fbp_lookup_table.csv"] = run]
       ELSE /\ pc' = "forest"
            /\ generated' = [generated EXCEPT !["fbp_lookup_table.csv"] = run,
                                              !["Weather.csv"] = run]
            /\ UNCHANGED error
    /\ UNCHANGED <<run, nrows, ncols, nsims, template, values, output_exists, output,
                   launches, exit_status, sim, grid_file, hit_count, losses, report, processed,
                   disk>>

build_forest_asc ==
    /\ pc = "forest"
    /\ pc' = "data"
    /\ generated' = [generated EXCEPT !["Forest.asc"] = run]
    /\ UNCHANGED <<run, nrows, ncols, nsims, template, values, output_exists, output,
                   launches, exit_status, sim, grid_file, hit_count, losses, report, error,
                   processed, disk>>

build_data_csv ==
    /\ pc = "data"
    /\ pc' = "values"
    /\ generated' = [generated EXCEPT !["Data.csv"] = run]
    /\ UNCHANGED <<run, nrows, ncols, nsims, template, values, output_exists, output,
                   launches, exit_status, sim, grid_file, hit_count, losses, report, error,
                   processed, disk>>

BuildPowerlineValues ==
    /\ pc = "values"
    /\ pc' = "rmtree"
    /\ values' = build_powerline_values(nrows, ncols)
    /\ generated' = [generated EXCEPT !["values100x100.csv"] = run]
    /\ UNCHANGED <<run, nrows, ncols, nsims, template, output_exists, output,
                   launches, exit_status, sim, grid_file, hit_count, losses, report, error,
                   processed, disk>>

\* Variant: the left-over output folder is kept.
RemoveOutputFolderSkipped ==
    /\ pc = "rmtree"
    /\ pc' = "launch"
    /\ UNCHANGED <<run, nrows, ncols, nsims, template, generated, values,
                   output_exists, output, launches, exit_status, sim, grid_file,
                   hit_count, losses, report, error, processed, disk>>

\* run_cell2fire, first half: remove a left-over output folder.
RemoveOutputFolder ==
    /\ pc = "rmtree"
    /\ pc' = "launch"
    /\ output_exists' = FALSE
    /\ output' = {}
    /\ UNCHANGED <<run, nrows, ncols, nsims, template, generated, values,
                   launches, exit_status, sim, grid_file, hit_count, losses, report, error,
                   processed, disk>>

\* Variant: subprocess.run without check=True.
CheckReturnCodeIgnored(status) == FALSE

\* What the return code means to subprocess.run(check=True).
CheckReturnCode(status) == status # 0

\* run_cell2fire, second half: the blocking simulator call.  The simulator
\* writes the grid files ForestGrid0.csv .. ForestGrid<MaxSimSeq>.csv of some
\* of the replicates and returns a status.
RunSimulator ==
    /\ pc = "launch"
    /\ \E status \in {0, 1}, done \in SUBSET (1..nsims) :
          LET written == {[folder |-> i, name |-> ForestGridName(k), run |-> run] :
                              i \in done, k \in 0..MaxSimSeq}
              kept == {f \in output :
                          \A w \in written : w.folder # f.folder \/ w.name # f.name}
          IN /\ output' = kept \cup written
             /\ output_exists' = TRUE
             /\ launches' = launches + 1
             /\ exit_status' = <<status>>
             /\ IF CheckReturnCode(status)
                THEN Fail("CalledProcessError")
                ELSE pc' = "evaluate" /\ UNCHANGED error
    /\ UNCHANGED <<run, nrows, ncols, nsims, template, generated, values,
                   sim, grid_file, hit_count, losses, report, processed, disk>>

\* Variant: the loop written as range(nsims).
EvaluateBeginFromZero ==
    /\ pc = "evaluate"
    /\ pc' = "loop"
    /\ sim' = 0
    /\ hit_count' = 0
    /\ losses' = <<>>
    /\ UNCHANGED <<run, nrows, ncols, nsims, template, generated, values,
                   output_exists, output, launches, exit_status, grid_file, report,
                   error, processed, disk>>

\* evaluate_losses up to the loop.
EvaluateBegin ==
    /\ pc = "evaluate"
    /\ pc' = "loop"
    /\ sim' = 1
    /\ hit_count' = 0
    /\ losses' = <<>>
    /\ UNCHANGED <<run, nrows, ncols, nsims, template, generated, values,
                   output_exists, output, launches, exit_status, grid_file, report, error,
                   processed, disk>>

\* Variant: a replicate without a grid file counts as a loss of zero.
EvaluateIterationSkipMissing(contents) ==
    /\ pc = "loop"
    /\ sim <= nsims
    /\ LET located == get_last_forest_grid_for_sim(output, sim)
       IN /\ grid_file' = located
          /\ processed' = Append(processed, sim)
          /\ IF located = NoFile
             THEN /\ losses' = Append(losses, 0)
                  /\ sim' = sim + 1
                  /\ UNCHANGED <<pc, error, hit_count>>
             ELSE \E g \in contents :
                    LET body == LoopBody(values, loadtxt(g))
                    IN IF ~body.ok
                       THEN /\ Fail("IndexError")
                            /\ UNCHANGED <<sim, hit_count, losses>>
                       ELSE /\ losses' = Append(losses, body.loss)
                            /\ hit_count' = hit_count + body.hit
                            /\ sim' = sim + 1
                            /\ UNCHANGED <<pc, error>>
    /\ UNCHANGED <<run, nrows, ncols, nsims, template, generated, values,
                   output_exists, output, launches, exit_status, report, disk>>

\* One pass of the loop; contents is what the located file may hold.
EvaluateIteration(contents) ==
    /\ pc = "loop"
    /\ sim <= nsims
    /\ LET located == get_last_forest_grid_for_sim(output, sim)
       IN /\ grid_file' = located
          /\ processed' = Append(processed, sim)
          /\ IF located = NoFile
             THEN /\ Fail("RuntimeError")
                  /\ UNCHANGED <<sim, hit_count, losses>>
             ELSE \E g \in contents :
                    LET body == LoopBody(values, loadtxt(g))
                    IN IF ~body.ok
                       THEN /\ Fail("IndexError")
                            /\ UNCHANGED <<sim, hit_count, losses>>
                       ELSE /\ losses' = Append(losses, body.loss)
                            /\ hit_count' = hit_count + body.hit
                            /\ sim' = sim + 1
                            /\ UNCHANGED <<pc, error>>
    /\ UNCHANGED <<run, nrows, ncols, nsims, template, generated, values,
                   output_exists, output, launches, exit_status, report, disk>>

\* The statistics and the printed summary.
Summary(n, cells, hits, ls) ==
    [nsims |-> n,
     cells |-> cells,
     hit_count |-> hits,
     hit_rate |-> [num |-> hits, den |-> n],
     avg_loss |-> [num |-> SumSeq(ls), den |-> Len(ls)],
     max_loss |-> MaxSeqOf(ls)]

EvaluateReport ==
    /\ pc = "loop"
    /\ sim > nsims
    /\ IF nsims = 0
       THEN /\ Fail("ZeroDivisionError")
            /\ UNCHANGED report
       ELSE /\ report' = <<Summary(nsims, Len(values), hit_count, losses)>>
            /\ pc' = "done"
            /\ UNCHANGED error
    /\ UNCHANGED <<run, nrows, ncols, nsims, template, generated, values,
                   output_exists, output, launches, exit_status, sim, grid_file, hit_count,
                   losses, processed, disk>>

\* main is started again over the same folders.
Restart ==
    /\ pc \in {"done", "failed"}
    /\ run < MaxRuns
    /\ run' = run + 1
    /\ pc' = "copy"
    /\ values' = <<>>
    /\ launches' = 0
    /\ exit_status' = <<>>
    /\ sim' = 0
    /\ grid_file' = NoFile
    /\ hit_count' = 0
    /\ losses' = <<>>
    /\ report' = <<>>
    /\ error' = "none"
    /\ processed' = <<>>
    /\ UNCHANGED <<nrows, ncols, nsims, template, generated, output_exists, output,
                   disk>>

\* The loop over the simulator's output: it writes grids of the landscape it
\* was given.
EvaluateRun == EvaluateIteration(Matrices(nrows, ncols, Codes))

\* The loop over grid files whose contents were fixed up front.
EvaluateDisk ==
    /\ pc = "loop"
    /\ sim <= nsims
    /\ EvaluateIteration({disk[sim]})

\* get_last_forest_grid_for_sim called on its own for one replicate index.
Locate ==
    /\ pc = "locate"
    /\ \E sim_index \in 1..2 :
          /\ sim' = sim_index
          /\ grid_file' = get_last_forest_grid_for_sim(output, sim_index)
          /\ IF grid_file' = NoFile
             THEN Fail("RuntimeError")
             ELSE pc' = "located" /\ UNCHANGED error
    /\ UNCHANGED <<run, nrows, ncols, nsims, template, generated, values,
                   output_exists, output, launches, exit_status, hit_count, losses, report,
                   processed, disk>>

---------------------------------------------------------------------------
\* The pipeline, run up to MaxRuns times over the same folders.
Init ==
    /\ pc = "copy"
    /\ run = 1
    /\ nrows \in 1..MaxRows
    /\ ncols \in 1..MaxCols
    /\ nsims \in 0..MaxSims
    /\ template \in SUBSET TemplateFiles
    /\ generated = [f \in ScenarioFiles |-> 0]
    /\ values = <<>>
    /\ output_exists = FALSE
    /\ output = {}
    /\ launches = 0
    /\ exit_status = <<>>
    /\ sim = 0
    /\ grid_file = NoFile
    /\ hit_count = 0
    /\ losses = <<>>
    /\ report = <<>>
    /\ error = "none"
    /\ processed = <<>>
    /\ disk = <<>>

Next ==
    \/ copy_common_input_files
    \/ build_forest_asc
    \/ build_data_csv
    \/ BuildPowerlineValues
    \/ RemoveOutputFolder
    \/ RunSimulator
    \/ EvaluateBegin
    \/ EvaluateRun
    \/ EvaluateReport
    \/ Restart

Spec == Init /\ [][Next]_vars

---------------------------------------------------------------------------
\* evaluate_losses on its own: any value map, any replicate count, and an
\* output tree in which some replicates have a grid file of any shape.
GridFiles ==
    UNION {Matrices(R, C, Codes) : R \in 1..MaxRows, C \in 1..MaxCols}

ValueMaps ==
    UNION {Matrices(R, C, MapValues) : R \in 1..MaxRows, C \in 1..MaxCols}

InitEval ==
    /\ pc = "evaluate"
    /\ run = 1
    /\ values \in ValueMaps
    /\ nrows = Len(values)
    /\ ncols = Len(values[1])
    /\ nsims \in 0..MaxSims
    /\ disk \in [1..nsims -> GridFiles]
    /\ \E present \in SUBSET (1..nsims) :
          output = {[folder |-> i, name |-> ForestGridName(0), run |-> 1] :
                        i \in present}
    /\ output_exists = TRUE
    /\ template = TemplateFiles
    /\ generated = [f \in ScenarioFiles |-> 1]
    /\ launches = 1
    /\ exit_status = <<0>>
    /\ sim = 0
    /\ grid_file = NoFile
    /\ hit_count = 0
    /\ losses = <<>>
    /\ report = <<>>
    /\ error = "none"
    /\ processed = <<>>

NextEval ==
    \/ EvaluateBegin
    \/ EvaluateDisk
    \/ EvaluateReport

SpecEval == InitEval /\ [][NextEval]_vars

---------------------------------------------------------------------------
\* build_powerline_values on its own, for every shape up to ValRows x ValCols.
InitValues ==
    /\ pc = "values"
    /\ run = 1
    /\ nrows \in 1..ValRows
    /\ ncols \in 1..ValCols
    /\ nsims = 1
    /\ template = TemplateFiles
    /\ generated = [f \in ScenarioFiles |->
                        IF f \in {"values100x100.csv"} THEN 0 ELSE 1]
    /\ values = <<>>
    /\ output_exists = FALSE
    /\ output = {}
    /\ launches = 0
    /\ exit_status = <<>>
    /\ sim = 0
    /\ grid_file = NoFile
    /\ hit_count = 0
    /\ losses = <<>>
    /\ report = <<>>
    /\ error = "none"
    /\ processed = <<>>
    /\ disk = <<>>

NextValues == BuildPowerlineValues

SpecValues == InitValues /\ [][NextValues]_vars

---------------------------------------------------------------------------
\* get_last_forest_grid_for_sim on its own: replicate 1's folder holds any
\* set of the files ForestGrid0.csv .. ForestGrid<MaxSeq>.csv and Stats.csv,
\* replicate 2's folder holds ForestGrid<MaxSeq>.csv or nothing.
LocatorNames == {ForestGridName(k) : k \in 0..MaxSeq} \cup {StatsName}

InitLocator ==
    /\ pc = "locate"
    /\ run = 1
    /\ nrows = 1
    /\ ncols = 1
    /\ nsims = 2
    /\ template = TemplateFiles
    /\ generated = [f \in ScenarioFiles |-> 1]
    /\ values = <<>>
    /\ output_exists = TRUE
    /\ \E S \in SUBSET LocatorNames, T \in SUBSET {ForestGridName(MaxSeq)} :
          output = {[folder |-> 1, name |-> n, run |-> 1] : n \in S}
                     \cup {[folder |-> 2, name |-> n, run |-> 1] : n \in T}
    /\ launches = 1
    /\ exit_status = <<0>>
    /\ sim = 0
    /\ grid_file = NoFile
    /\ hit_count = 0
    /\ losses = <<>>
    /\ report = <<>>
    /\ error = "none"
    /\ processed = <<>>
    /\ disk = <<>>

NextLocator == Locate

SpecLocator == InitLocator /\ [][NextLocator]_vars

---------------------------------------------------------------------------
\* Properties of the pipeline (specification Spec).

\* A replicate's folder holds a file matching ForestGrid*.csv.
HasGridFile(i) == \E f \in output : f.folder = i /\ GlobMatch(f.name)

\* C2: during the aggregation loop and in every report, hit_count is at most
\* the number of replicates processed so far, which is at most nsims, and
\* hit_rate = hit_count / nsims lies in [0, 1].
C2_HitCountBounded ==
    /\ hit_count >= 0
    /\ hit_count <= Len(losses)
    /\ Len(losses) <= nsims
    /\ pc = "loop" => Len(losses) = sim - 1
    /\ report # <<>> =>
          /\ report[1].hit_count <= report[1].nsims
          /\ report[1].nsims = nsims
          /\ report[1].hit_rate.den > 0
          /\ 0 <= report[1].hit_rate.num
          /\ report[1].hit_rate.num <= report[1].hit_rate.den

\* C2 witness: a report over two or more replicates, every one of them a hit.
C2_Witness ==
    /\ report # <<>>
    /\ nsims >= 2
    /\ report[1].hit_count = nsims

\* C3: a replicate whose folder holds no ForestGrid*.csv file ends the
\* aggregation with RuntimeError at that replicate: nothing is recorded for
\* it, no later replicate is looked up, and no report is emitted.
C3_MissingReplicateAborts ==
    /\ \A k \in 1..Len(processed) :
          ~HasGridFile(processed[k]) =>
             /\ pc = "failed"
             /\ error = "RuntimeError"
             /\ k = Len(processed)
             /\ Len(losses) = processed[k] - 1
             /\ report = <<>>
    /\ report # <<>> => \A i \in 1..nsims : HasGridFile(i)

\* C3 witness: the second replicate is the missing one, the first was aggregated.
C3_Witness ==
    /\ pc = "failed"
    /\ error = "RuntimeError"
    /\ Len(losses) >= 1
    /\ ~HasGridFile(Len(losses) + 1)

\* C5: a non-zero exit status of the simulator fails the run with
\* CalledProcessError: evaluate_losses is never started, no replicate output
\* is looked up and no report is emitted.
C5_SimulatorFailureIsFatal ==
    (exit_status # <<>> /\ exit_status[1] # 0) =>
        /\ pc = "failed"
        /\ error = "CalledProcessError"
        /\ processed = <<>>
        /\ grid_file = NoFile
        /\ sim = 0
        /\ losses = <<>>
        /\ report = <<>>

\* C5 witness: the simulator failed after writing grid files.
C5_Witness ==
    /\ exit_status = <<1>>
    /\ pc = "failed"
    /\ \E f \in output : f.run = run

\* C6: when the simulator is launched the output folder does not exist, and
\* every grid file in the folder afterwards, in particular every file the
\* aggregation reads, was written by this run's simulator invocation.
C6_CleanOutputState ==
    /\ pc = "launch" => (~output_exists /\ output = {})
    /\ launches > 0 => \A f \in output : f.run = run
    /\ grid_file # NoFile => (grid_file \in output /\ grid_file.run = run)

\* C6 witness: a later run, started over the folder an earlier run left, reads a grid file.
C6_Witness ==
    /\ run >= 2
    /\ grid_file # NoFile
    /\ Len(losses) >= 1

\* C9: the scenario files and the value map are all written by this run
\* before the simulator is launched; the simulator is invoked once and has
\* returned before any replicate is looked up; the replicates are looked up
\* in the order 1, 2, ..., each once, and all nsims of them before the report.
C9_StepOrder ==
    /\ (pc = "launch" \/ launches > 0) =>
          /\ \A f \in ScenarioFiles : generated[f] = run
          /\ values # <<>>
    /\ launches <= 1
    /\ launches = Len(exit_status)
    /\ processed # <<>> => exit_status = <<0>>
    /\ \A k \in 1..Len(processed) : processed[k] = k
    /\ Len(processed) <= nsims
    /\ report # <<>> => Len(processed) = nsims

\* C9 witness: a run that aggregated two or more replicates and reported.
C9_Witness ==
    /\ pc = "done"
    /\ Len(processed) >= 2

\* C10: with a template file missing, the run fails with FileNotFoundError in
\* copy_common_input_files: the missing file is not staged, no later file is
\* written, the simulator is not invoked and no report is emitted.
C10_MissingTemplateIsFatal ==
    template # TemplateFiles =>
        /\ pc \in {"copy", "failed"}
        /\ pc = "failed" => error = "FileNotFoundError"
        /\ \A f \in ScenarioFiles \ template : generated[f] = 0
        /\ values = <<>>
        /\ launches = 0
        /\ exit_status = <<>>
        /\ ~output_exists
        /\ processed = <<>>
        /\ report = <<>>

\* C10 witness: Weather.csv is missing, after fbp_lookup_table.csv was staged.
C10_Witness ==
    /\ pc = "failed"
    /\ "Weather.csv" \notin template
    /\ generated["fbp_lookup_table.csv"] = run

---------------------------------------------------------------------------
\* Properties of build_powerline_values (specification SpecValues).

\* C8 as stated: cell (r, c), 0-indexed, is 100 exactly when c = cols // 2 - 1
\* and 1 otherwise.
C8_AssetColumnAsStated ==
    values # <<>> =>
        \A r \in 0..(nrows - 1), c \in 0..(ncols - 1) :
            values[r + 1][c + 1] = (IF c = (ncols \div 2) - 1 THEN 100 ELSE 1)

\* C8 amended: the matrix is nrows x ncols; cell (r, c), 0-indexed, is 100
\* exactly when c = (cols // 2 - 1) mod cols (column 0 when cols = 1, where
\* the index -1 denotes the last column) and 1 otherwise; so exactly one
\* column, with an index in [0, cols-1], is elevated, and the column
\* evaluate_losses extracts is that column.
C8_AssetColumn ==
    values # <<>> =>
        /\ Len(values) = nrows
        /\ \A r \in 1..nrows : Len(values[r]) = ncols
        /\ \A r \in 0..(nrows - 1), c \in 0..(ncols - 1) :
              values[r + 1][c + 1] =
                  (IF c = ((ncols \div 2) - 1) % ncols THEN 100 ELSE 1)
        /\ Cardinality({c \in 0..(ncols - 1) :
                            \A r \in 1..nrows : values[r][c + 1] = 100}) = 1
        /\ Column(values, PowerlineColIndex(ncols)) = [r \in 1..nrows |-> 100]

\* C8 witness: a value map of two or more rows with a single column, which is elevated.
C8_Witness ==
    /\ values # <<>>
    /\ nrows >= 2
    /\ ncols = 1
    /\ values[nrows][1] = 100

---------------------------------------------------------------------------
\* Properties of get_last_forest_grid_for_sim (specification SpecLocator).

\* C7: when the replicate's folder holds files ForestGrid<k>.csv, the file
\* returned is in that replicate's folder, matches the pattern, and is the
\* one with the highest sequence number k; the lookup fails only when the
\* folder holds no matching file.
C7_ReturnsHighestSequenceNumber ==
    /\ pc = "located" =>
          /\ grid_file \in output
          /\ grid_file.folder = sim
          /\ GlobMatch(grid_file.name)
          /\ \A j \in 0..MaxSeq :
                [folder |-> sim, name |-> ForestGridName(j), run |-> 1] \in output
                    => \E k \in j..MaxSeq : grid_file.name = ForestGridName(k)
    /\ pc = "failed" =>
          \A j \in 0..MaxSeq :
              [folder |-> sim, name |-> ForestGridName(j), run |-> 1] \notin output

---------------------------------------------------------------------------
\* Properties of evaluate_losses (specification SpecEval).

Shape(m) == <<Len(m), Len(m[1])>>

\* The asset column of the claims, index cols // 2 - 1 counted from 0, as a
\* position counted from 1.
ClaimAssetColumn == ncols \div 2

ClaimBurned(i, r) ==
    /\ ClaimAssetColumn \in 1..ncols
    /\ disk[i][r][ClaimAssetColumn] = 1

ClaimLoss(i) ==
    SumSeq([r \in 1..nrows |->
               IF ClaimBurned(i, r) THEN values[r][ClaimAssetColumn] ELSE 0])

ClaimHit(i) == \E r \in 1..nrows : ClaimBurned(i, r)

\* C1: for nsims >= 1 grids of the value map's shape, evaluate_losses
\* reports: each replicate's loss is the sum of the asset column's values
\* over the rows whose cell in that column is 1, hit_count is the number of
\* replicates with such a row, hit_rate = hit_count / nsims, mean_loss is the
\* sum of all losses over nsims and max_loss the largest loss.
C1_ReportAsStated ==
    (/\ nsims >= 1
     /\ \A i \in 1..nsims : HasGridFile(i) /\ Shape(disk[i]) = Shape(values)) =>
        /\ pc # "failed"
        /\ \A i \in 1..Len(losses) : losses[i] = ClaimLoss(i)
        /\ hit_count = Cardinality({i \in 1..Len(losses) : ClaimHit(i)})
        /\ pc = "done" =>
              /\ report # <<>>
              /\ Len(losses) = nsims
              /\ report[1].hit_count = hit_count
              /\ report[1].hit_rate = [num |-> hit_count, den |-> nsims]
              /\ report[1].avg_loss.num * nsims =
                    SumSeq([i \in 1..nsims |-> ClaimLoss(i)]) * report[1].avg_loss.den
              /\ \A i \in 1..nsims : ClaimLoss(i) <= report[1].max_loss
              /\ \E i \in 1..nsims : ClaimLoss(i) = report[1].max_loss

\* C4: a loaded grid whose shape differs from the value map's never
\* contributes a loss, and no report is produced from such a grid.
C4_ShapeMismatchIsFatal ==
    /\ \A i \in 1..Len(losses) : Shape(disk[i]) = Shape(values)
    /\ report # <<>> => \A i \in 1..nsims : Shape(disk[i]) = Shape(values)

====
